---------------------------- MODULE Spec2Model ----------------------------
(***************************************************************************)
(* Media-Scout recommendation service (src/src/main.rs): the in-memory     *)
(* catalog cache with its staleness clock, the per-user rotation of        *)
(* already served titles, the durable snapshot upload with retries, the    *)
(* request handler and the periodic refresh task.                          *)
(*                                                                         *)
(* Time is counted in ticks of half an hour, so that the truncation of     *)
(* num_hours() is visible.  A title    is a natural number standing for    *)
(* the title string; a rating is an Option: <<>> is None, <<n>> is Some(n).*)
(* Every section of code that runs under the cache lock is one action: the *)
(* RwLock makes it atomic with respect to every other such section.        *)
(***************************************************************************)
EXTENDS Integers, Sequences, FiniteSets, TLC

VARIABLES
    now,        \* chrono::Utc::now(), in ticks
    cache,      \* ContentCache: data, used_recommendations, last_updated
    blob,       \* the blob "latest.json.gz" of the container: <<>> or <<its bytes>>
    req,        \* per request task: the locals of get_recommendations
    upd,        \* the locals of main's update task (initial and periodic update_content)
    calls,      \* number of requests received so far
    served,     \* history: user key -> titles returned since that key's rotation last restarted
    save_failed, \* history: the save_to_blob that returned last reported an error
    lock,       \* the RwLock around the cache: the writer and the readers holding it
    agg,        \* the locals of a scrape_content run
    loaded,     \* the result of process_blob_data
    upload_failed \* history: some upload attempt has failed

vars == <<now, cache, blob, req, upd, calls, served, save_failed,
          lock, agg, loaded, upload_failed>>

-----------------------------------------------------------------------------
(* Bounds of the model *)

MaxHours == 13
NumReqs == 2
MaxCalls == 2
MaxSeqCalls == 3
MaxInFlight == 2
MaxGenres == 3
MaxSeed == 1
BigPool == 31
SmallPool == 5
MaxFinite == 9
MaxPage == 1
MaxId == 2
MaxResults == 2
MaxLockCalls == 3

(* Constants of the program *)

StaleHours == 12
TimerHours == 12
max_retries == 3
RotationFloor == 10
MaxRecommendations == 20

Reqs == 1..NumReqs
Seeds == 0..MaxSeed
\* h hours in ticks
Hours(h) == 2 * h

\* the steps of the clock: 13 hours; and, one call at a time, 12 hours and
\* 12 hours 30 minutes too
ConcSteps == {Hours(StaleHours + 1)}
SeqSteps == {Hours(StaleHours), Hours(StaleHours) + 1, Hours(StaleHours + 1)}

-----------------------------------------------------------------------------
(* Option values *)

None == <<>>
Some(x) == <<x>>
IsSome(o) == o /= <<>>
unwrap_or(o, d) == IF o = <<>> THEN d ELSE o[1]

Range(s) == {s[i] : i \in 1..Len(s)}

\* f32: the finite ratings are 0..MaxFinite, the value above them is f32::INFINITY
INFINITY == MaxFinite + 1
is_finite(x) == x <= MaxFinite

Min(a, b) == IF a < b THEN a ELSE b

-----------------------------------------------------------------------------
(* Content, and the catalogs the metadata provider can yield *)

Content(t, r, g) == [title |-> t, rating |-> r, genre |-> g]

ActionItems ==
    [i \in 1..BigPool |->
        Content(i, Some(5 + (i % 5)),
                IF i % 2 = 0 THEN <<"Action">> ELSE <<"Romance", "Comedy">>)]

DramaItems ==
    [i \in 1..SmallPool |-> Content(100 + i, Some(8), <<"Drama">>)]

OtherItems ==
    << Content(201, None, <<"Action", "Drama">>),
       Content(202, Some(3), <<"Comedy", "Drama">>),
       Content(203, Some(9), <<"Horror">>),
       Content(204, Some(9), <<>>) >>

CatalogA == ActionItems \o DramaItems \o OtherItems

CatalogB ==
    [i \in 1..12 |-> Content(20 + i, Some(6), <<"Action", "Drama">>)]

Catalogs == {CatalogA, CatalogB, <<>>}
ConcCatalogs == {CatalogA, CatalogB}

(* The preferences a request can carry *)

UserPreferences(g, m) == [favorite_genres |-> g, minimum_rating |-> m]

Prefs ==
    { UserPreferences(<<"Action", "Comedy">>, 5),
      UserPreferences(<<"Comedy", "Action">>, 5),
      UserPreferences(<<"Drama">>, 0),
      UserPreferences(<<"Drama", "Drama">>, 0),
      UserPreferences(<<>>, 0) }

\* every preference value with up to MaxGenres genres, for generate_user_key
RECURSIVE SeqsUpTo(_, _)
SeqsUpTo(S, n) ==
    IF n = 0 THEN {<<>>}
    ELSE LET shorter == SeqsUpTo(S, n - 1)
         IN  shorter \cup {Append(q, x) : q \in shorter, x \in S}

KeyPrefs ==
    {UserPreferences(g, m) : g \in SeqsUpTo({"Action", "Comedy", "Drama"}, MaxGenres),
                             m \in {0, 5}}

ConcPrefs ==
    { UserPreferences(<<"Action", "Comedy">>, 5),
      UserPreferences(<<"Drama">>, 0) }

-----------------------------------------------------------------------------
(* ContentCache *)

EmptyMap == [k \in {} |-> {}]

num_hours(d) == d \div Hours(1)

needs_update(c) == num_hours(now - c.last_updated) > StaleHours

get_latest(c) == IF "latest" \in DOMAIN c.data THEN Some(c.data["latest"]) ELSE None

CacheData(c) ==
    [content |-> unwrap_or(get_latest(c), <<>>),
     used_recommendations |-> c.used_recommendations,
     last_updated |-> c.last_updated]

\* as Replace, but the rotation store is left as it was
Replace_keeps_rotation(content) ==
    [data |-> [k \in DOMAIN cache.data \cup {"latest"} |-> content],
     used_recommendations |-> cache.used_recommendations,
     last_updated |-> now]

\* the write section of update_content and get_recommendations
Replace(content) ==
    [data |-> [k \in DOMAIN cache.data \cup {"latest"} |-> content],
     used_recommendations |-> EmptyMap,
     last_updated |-> now]

-----------------------------------------------------------------------------
(* The RwLock around the cache.  A task is a request task, or the task of
   main that runs update_content. *)

UpdTask == 0

Unlocked == [writer |-> None, readers |-> {}]

\* RwLock::read and RwLock::write return once the lock can be taken
read_ok(l) == l.writer = None
write_ok(l) == l.writer = None /\ l.readers = {}

read(l, t) == [l EXCEPT !.readers = @ \cup {t}]
write(l, t) == [l EXCEPT !.writer = Some(t)]

\* the guard leaves its scope, or drop(cache)
drop_forgotten(l, t) == l
drop(l, t) ==
    [writer |-> IF l.writer = Some(t) THEN None ELSE l.writer,
     readers |-> l.readers \ {t}]

-----------------------------------------------------------------------------
(* generate_user_key *)

GenreRank(g) ==
    CASE g = "Action" -> 1
      [] g = "Comedy" -> 2
      [] g = "Drama" -> 3
      [] g = "Horror" -> 4
      [] g = "Romance" -> 5

RECURSIVE Insert(_, _)
Insert(x, s) ==
    IF s = <<>> THEN <<x>>
    ELSE IF GenreRank(x) <= GenreRank(Head(s)) THEN <<x>> \o s
    ELSE <<Head(s)>> \o Insert(x, Tail(s))

RECURSIVE sort(_)
sort(s) == IF s = <<>> THEN <<>> ELSE Insert(Head(s), sort(Tail(s)))

to_bits(m) == m

\* the hasher is taken collision-free: the key is what was fed to it
generate_user_key(p) == <<sort(p.favorite_genres), to_bits(p.minimum_rating)>>

-----------------------------------------------------------------------------
(* filter_recommendations *)

contains(s, x) == \E i \in 1..Len(s) : s[i] = x

Matches_missing_rating_passes(c, p) ==
    /\ unwrap_or(c.rating, p.minimum_rating) >= p.minimum_rating
    /\ \E i \in 1..Len(c.genre) : contains(p.favorite_genres, c.genre[i])

Matches_empty_matches_all(c, p) ==
    /\ unwrap_or(c.rating, 0) >= p.minimum_rating
    /\ \/ p.favorite_genres = <<>>
       \/ \E i \in 1..Len(c.genre) : contains(p.favorite_genres, c.genre[i])

Matches(c, p) ==
    /\ unwrap_or(c.rating, 0) >= p.minimum_rating
    /\ \E i \in 1..Len(c.genre) : contains(p.favorite_genres, c.genre[i])

RECURSIVE FilterSeq(_, _)
FilterSeq(s, p) ==
    IF s = <<>> THEN <<>>
    ELSE IF Matches(Head(s), p) THEN <<Head(s)>> \o FilterSeq(Tail(s), p)
    ELSE FilterSeq(Tail(s), p)

retain_all(s, used) == s

RECURSIVE retain(_, _)
retain(s, used) ==
    IF s = <<>> THEN <<>>
    ELSE IF Head(s).title \notin used THEN <<Head(s)>> \o retain(Tail(s), used)
    ELSE retain(Tail(s), used)

\* the permutation the random generator yields for a seed: a rotation by
\* seed places, reversed for an odd seed
shuffle(s, seed) ==
    LET n == Len(s)
        rot == [i \in 1..n |-> s[((i - 1 + seed) % n) + 1]]
    IN  IF n = 0 THEN <<>>
        ELSE IF seed % 2 = 1 THEN [i \in 1..n |-> rot[n + 1 - i]]
        ELSE rot

take(s, n) == SubSeq(s, 1, Min(n, Len(s)))

Select_untruncated(available, seed) == shuffle(available, seed)

Select(available, seed) == take(shuffle(available, seed), MaxRecommendations)

Titles(s) == {s[i].title : i \in 1..Len(s)}

\* HashSet::clear, line 841
clear_kept(set) == set
clear(set) == {}

entry(m, k) == IF k \in DOMAIN m THEN m ELSE [x \in DOMAIN m \cup {k} |-> IF x = k THEN {} ELSE m[x]]

SetEntry(m, k, v) == [x \in DOMAIN m \cup {k} |-> IF x = k THEN v ELSE m[x]]

-----------------------------------------------------------------------------
(* The state after ContentService::new() *)

\* the locals of scrape_content; detail_calls, answered, skipped, repeated,
\* genres_failed and providers_failed (the ids whose detail call failed)
\* are history: the ids for which detail calls were issued, whether a listing
\* call was answered with a success status, whether one was answered with an
\* error status, whether the tracker has skipped a result
IdleAgg ==
    [pc |-> "idle", call |-> 1, seen_ids |-> {}, all_content |-> <<>>,
     detail_calls |-> <<>>, answered |-> FALSE, skipped |-> FALSE,
     repeated |-> FALSE, genres_failed |-> {}, providers_failed |-> {},
     result |-> None]

Ok(body) == [status |-> "Ok", body |-> body, error |-> ""]
Err(e) == [status |-> "Err", body |-> <<>>, error |-> e]

IdleReq ==
    [pc |-> "idle",
     prefs |-> UserPreferences(<<>>, 0),
     user_key |-> <<<<>>, 0>>,
     content |-> None,
     available |-> <<>>,
     recommendations |-> <<>>,
     reset |-> FALSE,
     retry_count |-> 0,
     backoff |-> 0,
     cache_data |-> None,
     result |-> None,
     path |-> "",
     after_failed_save |-> FALSE]

Init ==
    /\ now = 0
    /\ cache = [data |-> [k \in {} |-> <<>>],
                used_recommendations |-> EmptyMap,
                last_updated |-> 0]
    /\ blob = None
    /\ req = [r \in Reqs |-> IdleReq]
    /\ upd = [pc |-> "boot", retry_count |-> 0, backoff |-> 0, cache_data |-> None, wake |-> 0]
    /\ calls = 0
    /\ served = EmptyMap
    /\ save_failed = FALSE
    /\ lock = Unlocked
    /\ agg = IdleAgg
    /\ loaded = None
    /\ upload_failed = FALSE

-----------------------------------------------------------------------------
(* save_to_blob, lines 699-704, and process_blob_data: serde_json and gzip.
   A JSON text is the tree of its values; a gzip stream is its header and
   the text it holds. *)

Null == <<"null">>
Number(x) == <<"number", x>>

\* serde_json writes an f32 that is not finite as null
serialize_f32(x) == IF is_finite(x) THEN Number(x) ELSE Null
serialize_option(o) == IF o = None THEN Null ELSE serialize_f32(o[1])
deserialize_option(j) == IF j[1] = "null" THEN None ELSE Some(j[2])

\* a HashSet is written as an array, in the order of its iteration
RECURSIVE SetToSeq(_)
SetToSeq(S) ==
    IF S = {} THEN <<>>
    ELSE LET x == CHOOSE y \in S : TRUE IN <<x>> \o SetToSeq(S \ {x})

to_rfc3339(t) == <<"rfc3339", t>>
parse_from_rfc3339(j) == j[2]

to_string(d) ==
    [valid |-> TRUE,
     content |-> [i \in 1..Len(d.content) |->
                     [title |-> d.content[i].title,
                      rating |-> serialize_option(d.content[i].rating),
                      genre |-> d.content[i].genre]],
     used_recommendations |-> [k \in DOMAIN d.used_recommendations |->
                                  SetToSeq(d.used_recommendations[k])],
     last_updated |-> to_rfc3339(d.last_updated)]

from_str(j) ==
    IF ~j.valid THEN Err("json")
    ELSE Ok([content |-> [i \in 1..Len(j.content) |->
                             Content(j.content[i].title,
                                     deserialize_option(j.content[i].rating),
                                     j.content[i].genre)],
             used_recommendations |-> [k \in DOMAIN j.used_recommendations |->
                                          Range(j.used_recommendations[k])],
             last_updated |-> parse_from_rfc3339(j.last_updated)])

GzEncoder(json) == [gzip |-> TRUE, text |-> json]

\* the bytes save_to_blob uploads
compressed(d) == GzEncoder(to_string(d))

process_blob_data(data) ==
    IF ~data.gzip THEN Err("gzip") ELSE from_str(data.text)

-----------------------------------------------------------------------------
(* get_recommendations (handler and ContentService method) *)

\* the calls in progress: requests being served, and an update past its check
InFlight ==
    Cardinality({r \in Reqs : req[r].pc /= "idle"})
        + (IF upd.pc \in {"scrape", "save"} THEN 1 ELSE 0)

\* lines 766-784: the key, the read section, the branch on the cached content
ReqStart(r, p, budget, width) ==
    /\ upd.pc \notin {"boot", "exited"}
    /\ req[r].pc = "idle"
    /\ calls < budget
    /\ InFlight < width
    /\ read_ok(lock)
    /\ lock' = drop(read(lock, r), r)
    /\ calls' = calls + 1
    /\ LET content == IF ~needs_update(cache) THEN get_latest(cache) ELSE None
       IN  req' = [req EXCEPT ![r] =
                      [IdleReq EXCEPT
                          !.pc = IF IsSome(content) THEN "filter" ELSE "scrape",
                          !.prefs = p,
                          !.user_key = generate_user_key(p),
                          !.content = content,
                          !.path = IF IsSome(content) THEN "cached"
                                   ELSE IF IsSome(get_latest(cache)) THEN "stale"
                                   ELSE "empty",
                          !.after_failed_save = save_failed]]
    /\ UNCHANGED <<now, cache, blob, upd, served, save_failed, agg, loaded, upload_failed>>

\* lines 786-801: scrape_content returned Ok; the write section replaces the cache
ReqScrapeOk(r, c) ==
    /\ req[r].pc = "scrape"
    /\ write_ok(lock)
    /\ lock' = drop(write(lock, r), r)
    /\ cache' = Replace(c)
    /\ served' = EmptyMap
    /\ req' = [req EXCEPT ![r].pc = "save",
                          ![r].content = Some(c),
                          ![r].retry_count = 0,
                          ![r].cache_data = Some(CacheData(cache'))]
    /\ UNCHANGED <<now, blob, upd, save_failed, calls, agg, loaded, upload_failed>>

\* line 786 with lines 895-902: scrape_content returned Err, the ? returns it
ReqScrapeErr(r) ==
    /\ req[r].pc = "scrape"
    /\ req' = [req EXCEPT ![r].pc = "done", ![r].result = Some(Err("scrape"))]
    /\ UNCHANGED <<now, cache, blob, upd, served, save_failed, calls, lock, agg, loaded, upload_failed>>

\* as delay, but with the exponent counted from 0
delay_from_zero(retry_count) == 2 ^ (retry_count - 1)

\* save_to_blob, line 741: the seconds slept before the next attempt; backoff
\* is the history of the seconds a save has slept
delay(retry_count) == 2 ^ retry_count

\* save_to_blob, lines 726-734: an upload attempt succeeds
ReqUploadOk(r) ==
    /\ req[r].pc = "save"
    /\ blob' = Some(compressed(req[r].cache_data[1]))
    /\ save_failed' = FALSE
    /\ req' = [req EXCEPT ![r].pc = "filter"]
    /\ UNCHANGED <<now, cache, upd, served, calls, lock, agg, loaded, upload_failed>>

\* as ReqUploadErr, but the failed save takes the replaced content back
ReqUploadErr_rollback(r) ==
    /\ req[r].pc = "save"
    /\ upload_failed' = TRUE
    /\ LET n == req[r].retry_count + 1
       IN  IF n < max_retries
           THEN /\ req' = [req EXCEPT ![r].retry_count = n,
                                      ![r].backoff = @ + delay(n)]
                /\ UNCHANGED <<save_failed, cache>>
           ELSE /\ req' = [req EXCEPT ![r].retry_count = n,
                                      ![r].pc = "done",
                                      ![r].result = Some(Err("upload"))]
                /\ save_failed' = TRUE
                /\ cache' = [cache EXCEPT !.data = [k \in {} |-> <<>>]]
    /\ UNCHANGED <<now, blob, upd, served, calls, lock, agg, loaded>>

\* as ReqUploadErr, but the loop goes on after max_retries failures
ReqUploadErr_retries_on(r) ==
    /\ req[r].pc = "save"
    /\ upload_failed' = TRUE
    /\ req' = [req EXCEPT ![r].retry_count = @ + 1]
    /\ UNCHANGED <<now, cache, blob, upd, served, save_failed, calls, lock, agg, loaded>>

\* save_to_blob, lines 735-752: an upload attempt fails; line 804 returns the error
ReqUploadErr(r) ==
    /\ req[r].pc = "save"
    /\ upload_failed' = TRUE
    /\ LET n == req[r].retry_count + 1
       IN  IF n < max_retries
           THEN /\ req' = [req EXCEPT ![r].retry_count = n,
                                      ![r].backoff = @ + delay(n)]
                /\ UNCHANGED save_failed
           ELSE /\ req' = [req EXCEPT ![r].retry_count = n,
                                      ![r].pc = "done",
                                      ![r].result = Some(Err("upload"))]
                /\ save_failed' = TRUE
    /\ UNCHANGED <<now, cache, blob, upd, served, calls, lock, agg, loaded>>

\* as ReqFilter, but a reset empties the rotation store of every key
ReqFilter_clears_store(r, seed) ==
    /\ req[r].pc = "filter"
    /\ write_ok(lock)
    /\ lock' = drop(write(lock, r), r)
    /\ LET k == req[r].user_key
           m == entry(cache.used_recommendations, k)
           available == retain(FilterSeq(req[r].content[1], req[r].prefs), m[k])
       IN  IF Len(available) < RotationFloor
           THEN /\ cache' = [cache EXCEPT !.used_recommendations = [x \in DOMAIN m |-> {}]]
                /\ served' = SetEntry(served, k, {})
                /\ req' = [req EXCEPT ![r].pc = "reread",
                                      ![r].reset = TRUE,
                                      ![r].available = available]
           ELSE /\ cache' = [cache EXCEPT !.used_recommendations = m]
                /\ served' = served
                /\ req' = [req EXCEPT ![r].pc = "mark",
                                      ![r].available = available,
                                      ![r].recommendations = Select(available, seed)]
    /\ UNCHANGED <<now, blob, upd, save_failed, calls, agg, loaded, upload_failed>>

\* filter_recommendations, lines 818-843 (and 857-862 when there is no reset)
ReqFilter(r, seed) ==
    /\ req[r].pc = "filter"
    /\ write_ok(lock)
    /\ lock' = drop(write(lock, r), r)
    /\ LET k == req[r].user_key
           m == entry(cache.used_recommendations, k)
           available == retain(FilterSeq(req[r].content[1], req[r].prefs), m[k])
       IN  IF Len(available) < RotationFloor
           THEN /\ cache' = [cache EXCEPT !.used_recommendations = SetEntry(m, k, clear(m[k]))]
                /\ served' = SetEntry(served, k, {})
                /\ req' = [req EXCEPT ![r].pc = "reread",
                                      ![r].reset = TRUE,
                                      ![r].available = available]
           ELSE /\ cache' = [cache EXCEPT !.used_recommendations = m]
                /\ served' = served
                /\ req' = [req EXCEPT ![r].pc = "mark",
                                      ![r].available = available,
                                      ![r].recommendations = Select(available, seed)]
    /\ UNCHANGED <<now, blob, upd, save_failed, calls, agg, loaded, upload_failed>>

\* filter_recommendations, lines 844-862: the read section of the reset path
ReqReread(r, seed) ==
    /\ req[r].pc = "reread"
    /\ read_ok(lock)
    /\ lock' = drop(read(lock, r), r)
    /\ LET latest == get_latest(cache)
           available == IF IsSome(latest) THEN FilterSeq(latest[1], req[r].prefs)
                        ELSE req[r].available
       IN  req' = [req EXCEPT ![r].pc = "mark",
                              ![r].available = available,
                              ![r].recommendations = Select(available, seed)]
    /\ UNCHANGED <<now, cache, blob, upd, served, save_failed, calls, agg, loaded, upload_failed>>

\* as ReqMark, but the call saves a snapshot of the cache after recording
ReqMark_saves(r) ==
    /\ req[r].pc = "mark"
    /\ write_ok(lock)
    /\ lock' = drop(write(lock, r), r)
    /\ LET k == req[r].user_key
           m == entry(cache.used_recommendations, k)
           t == Titles(req[r].recommendations)
       IN  /\ cache' = [cache EXCEPT !.used_recommendations = SetEntry(m, k, m[k] \cup t)]
           /\ served' = SetEntry(served, k,
                                 (IF k \in DOMAIN served THEN served[k] ELSE {}) \cup t)
    /\ req' = [req EXCEPT ![r].pc = "save",
                          ![r].retry_count = 0,
                          ![r].cache_data = Some(CacheData(cache'))]
    /\ UNCHANGED <<now, blob, upd, save_failed, calls, agg, loaded, upload_failed>>

\* as ReqMark, but the entry is replaced by the returned titles
ReqMark_replaces(r) ==
    /\ req[r].pc = "mark"
    /\ write_ok(lock)
    /\ lock' = drop(write(lock, r), r)
    /\ LET k == req[r].user_key
           m == entry(cache.used_recommendations, k)
           t == Titles(req[r].recommendations)
       IN  /\ cache' = [cache EXCEPT !.used_recommendations = SetEntry(m, k, t)]
           /\ served' = SetEntry(served, k,
                                 (IF k \in DOMAIN served THEN served[k] ELSE {}) \cup t)
    /\ req' = [req EXCEPT ![r].pc = "done",
                          ![r].result = Some(Ok(req[r].recommendations))]
    /\ UNCHANGED <<now, blob, upd, save_failed, calls, agg, loaded, upload_failed>>

\* filter_recommendations, lines 865-877, and the handler's Ok arm
ReqMark(r) ==
    /\ req[r].pc = "mark"
    /\ write_ok(lock)
    /\ lock' = drop(write(lock, r), r)
    /\ LET k == req[r].user_key
           m == entry(cache.used_recommendations, k)
           t == Titles(req[r].recommendations)
       IN  /\ cache' = [cache EXCEPT !.used_recommendations = SetEntry(m, k, m[k] \cup t)]
           /\ served' = SetEntry(served, k,
                                 (IF k \in DOMAIN served THEN served[k] ELSE {}) \cup t)
    /\ req' = [req EXCEPT ![r].pc = "done",
                          ![r].result = Some(Ok(req[r].recommendations))]
    /\ UNCHANGED <<now, blob, upd, save_failed, calls, agg, loaded, upload_failed>>

\* the response is sent; the task can serve the next request
ReqFinish(r) ==
    /\ req[r].pc = "done"
    /\ req' = [req EXCEPT ![r] = IdleReq]
    /\ UNCHANGED <<now, cache, blob, upd, served, save_failed, calls, lock, agg, loaded, upload_failed>>

-----------------------------------------------------------------------------
(* main: the initial update_content, then the periodic task *)

\* what main does with the result of update_content: lines 920, 929-934
Returned(res) ==
    IF upd.pc = "boot" /\ res.status = "Err"
    THEN [pc |-> "exited", retry_count |-> 0, backoff |-> 0, cache_data |-> None, wake |-> upd.wake]
    ELSE [pc |-> "sleep", retry_count |-> 0, backoff |-> 0, cache_data |-> None,
          wake |-> now + Hours(TimerHours)]

\* as UpdCheck, but the update goes on to aggregate whatever the cache's age
UpdCheck_always_aggregates(width) ==
    /\ \/ upd.pc = "boot"
       \/ upd.pc = "sleep" /\ now >= upd.wake
    /\ InFlight < width
    /\ read_ok(lock)
    /\ lock' = drop(read(lock, UpdTask), UpdTask)
    /\ upd' = [upd EXCEPT !.pc = "scrape", !.retry_count = 0]
    /\ UNCHANGED <<now, cache, blob, req, served, save_failed, calls, agg, loaded, upload_failed>>

\* update_content, lines 665-672
UpdCheck(width) ==
    /\ \/ upd.pc = "boot"
       \/ upd.pc = "sleep" /\ now >= upd.wake
    /\ InFlight < width
    /\ read_ok(lock)
    /\ lock' = drop(read(lock, UpdTask), UpdTask)
    /\ IF ~needs_update(cache)
       THEN upd' = Returned(Ok(<<>>))
       ELSE upd' = [upd EXCEPT !.pc = "scrape", !.retry_count = 0]
    /\ UNCHANGED <<now, cache, blob, req, served, save_failed, calls, agg, loaded, upload_failed>>

\* update_content, lines 675-690
UpdScrapeOk(c) ==
    /\ upd.pc = "scrape"
    /\ write_ok(lock)
    /\ lock' = drop(write(lock, UpdTask), UpdTask)
    /\ cache' = Replace(c)
    /\ served' = EmptyMap
    /\ upd' = [upd EXCEPT !.pc = "save", !.retry_count = 0,
                          !.cache_data = Some(CacheData(cache'))]
    /\ UNCHANGED <<now, blob, req, save_failed, calls, agg, loaded, upload_failed>>

\* update_content, line 675: the ? returns the error
UpdScrapeErr ==
    /\ upd.pc = "scrape"
    /\ upd' = Returned(Err("scrape"))
    /\ UNCHANGED <<now, cache, blob, req, served, save_failed, calls, lock, agg, loaded, upload_failed>>

UpdUploadOk ==
    /\ upd.pc = "save"
    /\ blob' = Some(compressed(upd.cache_data[1]))
    /\ save_failed' = FALSE
    /\ upd' = Returned(Ok(<<>>))
    /\ UNCHANGED <<now, cache, req, served, calls, lock, agg, loaded, upload_failed>>

UpdUploadErr ==
    /\ upd.pc = "save"
    /\ upload_failed' = TRUE
    /\ LET n == upd.retry_count + 1
       IN  IF n < max_retries
           THEN /\ upd' = [upd EXCEPT !.retry_count = n,
                                      !.backoff = @ + delay(n)]
                /\ UNCHANGED save_failed
           ELSE /\ upd' = Returned(Err("upload"))
                /\ save_failed' = TRUE
    /\ UNCHANGED <<now, cache, blob, req, served, calls, lock, agg, loaded>>

\* time passes (not between the construction of the cache and the initial update)
Tick(d) ==
    /\ upd.pc /= "boot"
    /\ now + d <= Hours(MaxHours)
    /\ now' = now + d
    /\ UNCHANGED <<cache, blob, req, upd, served, save_failed, calls, lock, agg, loaded, upload_failed>>

-----------------------------------------------------------------------------

ReqStep(r, P, C, budget, width) ==
    \/ \E p \in P : ReqStart(r, p, budget, width)
    \/ \E c \in C : ReqScrapeOk(r, c)
    \/ ReqScrapeErr(r)
    \/ ReqUploadOk(r)
    \/ ReqUploadErr(r)
    \/ \E seed \in Seeds : ReqFilter(r, seed)
    \/ \E seed \in Seeds : ReqReread(r, seed)
    \/ ReqMark(r)
    \/ ReqFinish(r)

UpdStep(C, width) ==
    \/ UpdCheck(width)
    \/ \E c \in C : UpdScrapeOk(c)
    \/ UpdScrapeErr
    \/ UpdUploadOk
    \/ UpdUploadErr

\* concurrent requests and update, at most MaxInFlight calls in progress
Next ==
    \/ \E r \in Reqs : ReqStep(r, ConcPrefs, ConcCatalogs, MaxCalls, MaxInFlight)
    \/ UpdStep(ConcCatalogs, MaxInFlight)
    \/ \E d \in ConcSteps : Tick(d)

Spec == Init /\ [][Next]_vars

\* one call at a time
SeqNext ==
    \/ \E r \in Reqs : ReqStep(r, Prefs, Catalogs, MaxSeqCalls, 1)
    \/ UpdStep(Catalogs, 1)
    \/ \E d \in SeqSteps : Tick(d)

SeqSpec == Init /\ [][SeqNext]_vars

\* the process starts while the container holds the snapshot that an earlier
\* run of the process has uploaded
ColdInit ==
    /\ now = 0
    /\ cache = [data |-> [k \in {} |-> <<>>],
                used_recommendations |-> EmptyMap,
                last_updated |-> 0]
    /\ blob = Some(compressed([content |-> CatalogB,
                               used_recommendations |-> EmptyMap,
                               last_updated |-> 0]))
    /\ req = [r \in Reqs |-> IdleReq]
    /\ upd = [pc |-> "boot", retry_count |-> 0, backoff |-> 0, cache_data |-> None, wake |-> 0]
    /\ calls = 0
    /\ served = EmptyMap
    /\ save_failed = FALSE
    /\ lock = Unlocked
    /\ agg = IdleAgg
    /\ loaded = None
    /\ upload_failed = FALSE

ColdSpec == ColdInit /\ [][SeqNext]_vars

-----------------------------------------------------------------------------
(* scrape_content, fetch_movies and fetch_tv_shows.  The loop over the pages
   1..=5 runs over 1..MaxPage. *)

\* the listing calls of one page, in the order of lines 305-373
Endpoints ==
    << "trending/movie/week", "trending/movie/day", "movie/popular",
       "movie/top_rated", "movie/now_playing",
       "trending/tv/week", "trending/tv/day", "tv/popular",
       "tv/top_rated", "tv/on_the_air" >>

NumListings == MaxPage * Len(Endpoints)

\* the n-th listing call of a run is a fetch_movies or a fetch_tv_shows
Kind(n) == IF ((n - 1) % Len(Endpoints)) + 1 <= 5 THEN "movie" ELSE "tv"

Ids == 1..MaxId

\* the results arrays a listing call can be answered with, as the ids of their items
ResultLists == SeqsUpTo(Ids, MaxResults)

\* what the provider holds for an id: a movie and a show can have the same id
UpstreamTitle(kind, id) == IF kind = "movie" THEN id ELSE 50 + id
UpstreamGenres(kind, id) == IF kind = "movie" THEN <<"Action">> ELSE <<"Drama">>
UpstreamRating(kind, id) == Some(Min(MaxFinite, 5 + id))

\* ContentTracker::is_new: HashSet::insert returns whether the id was absent
is_new_always(seen_ids, id) == TRUE
is_new(seen_ids, id) == id \notin seen_ids

\* get_movie_genres / get_tv_genres with unwrap_or_default, lines 208-209
get_genres(kind, id, bad) == IF id \in bad THEN <<>> ELSE UpstreamGenres(kind, id)

\* get_watch_providers with unwrap_or_default, lines 210-211
UpstreamProviders(kind, id) == IF kind = "movie" THEN <<"Netflix">> ELSE <<"Hulu", "Max">>
get_watch_providers(kind, id, bad) == IF id \in bad THEN <<>> ELSE UpstreamProviders(kind, id)

\* the Content of lines 213-223, with the field where_to_watch, which nothing
\* but the aggregation and the snapshot touches
WithProviders(c, w) ==
    [title |-> c.title, rating |-> c.rating, genre |-> c.genre, where_to_watch |-> w]

\* as fetch_loop, but an item one of whose detail calls fails is left out
RECURSIVE fetch_loop_skips_failed(_, _, _, _)
fetch_loop_skips_failed(kind, results, bad, st) ==
    IF results = <<>> THEN st
    ELSE LET id == Head(results)
             seen == [st EXCEPT
                         !.seen_ids = @ \cup {id},
                         !.detail_calls = Append(@, id),
                         !.genres_failed = @ \cup ({id} \cap bad.genres),
                         !.providers_failed = @ \cup ({id} \cap bad.providers)]
         IN  IF ~is_new(st.seen_ids, id)
             THEN fetch_loop_skips_failed(kind, Tail(results), bad, [st EXCEPT !.repeated = TRUE])
             ELSE IF id \in bad.genres \cup bad.providers
             THEN fetch_loop_skips_failed(kind, Tail(results), bad, seen)
             ELSE fetch_loop_skips_failed(kind, Tail(results), bad,
                     [seen EXCEPT
                         !.all_content = Append(@,
                             WithProviders(Content(UpstreamTitle(kind, id),
                                                   UpstreamRating(kind, id),
                                                   UpstreamGenres(kind, id)),
                                           UpstreamProviders(kind, id)))])

\* the loop of fetch_movies / fetch_tv_shows over the results, lines 200-225;
\* bad: the ids whose genre call fails, the ids whose provider call fails
RECURSIVE fetch_loop(_, _, _, _)
fetch_loop(kind, results, bad, st) ==
    IF results = <<>> THEN st
    ELSE LET id == Head(results)
         IN  IF ~is_new(st.seen_ids, id)
             THEN fetch_loop(kind, Tail(results), bad, [st EXCEPT !.repeated = TRUE])
             ELSE fetch_loop(kind, Tail(results), bad,
                     [st EXCEPT
                         !.seen_ids = @ \cup {id},
                         !.detail_calls = Append(@, id),
                         !.genres_failed = @ \cup ({id} \cap bad.genres),
                         !.providers_failed = @ \cup ({id} \cap bad.providers),
                         !.all_content = Append(@,
                             WithProviders(Content(UpstreamTitle(kind, id),
                                                   UpstreamRating(kind, id),
                                                   get_genres(kind, id, bad.genres)),
                                           get_watch_providers(kind, id, bad.providers)))])

\* scrape_content is called, lines 298-301
AggStart ==
    /\ agg.pc = "idle"
    /\ agg' = [IdleAgg EXCEPT !.pc = "run"]
    /\ UNCHANGED <<now, cache, blob, req, upd, calls, served, save_failed, lock, loaded, upload_failed>>

\* a listing call is answered with a success status and a results array
AggFetchOk(results, bad) ==
    /\ agg.pc = "run"
    /\ agg.call <= NumListings
    /\ agg' = [fetch_loop(Kind(agg.call), results, bad, agg) EXCEPT
                  !.call = agg.call + 1, !.answered = TRUE]
    /\ UNCHANGED <<now, cache, blob, req, upd, calls, served, save_failed, lock, loaded, upload_failed>>

\* a listing call is answered with an error status: line 197 is false, Ok(vec![])
AggFetchStatus ==
    /\ agg.pc = "run"
    /\ agg.call <= NumListings
    /\ agg' = [agg EXCEPT !.call = @ + 1, !.skipped = TRUE]
    /\ UNCHANGED <<now, cache, blob, req, upd, calls, served, save_failed, lock, loaded, upload_failed>>

\* send() fails, or the body is no JSON: the ? of lines 195, 198 and 309 return the error
AggFetchErr ==
    /\ agg.pc = "run"
    /\ agg.call <= NumListings
    /\ agg' = [agg EXCEPT !.pc = "done", !.result = Some(Err("listing"))]
    /\ UNCHANGED <<now, cache, blob, req, upd, calls, served, save_failed, lock, loaded, upload_failed>>

\* lines 376-382: after the last call, shuffle and return
AggReturn(seed) ==
    /\ agg.pc = "run"
    /\ agg.call > NumListings
    /\ agg' = [agg EXCEPT !.pc = "done",
                          !.result = Some(Ok(shuffle(agg.all_content, seed)))]
    /\ UNCHANGED <<now, cache, blob, req, upd, calls, served, save_failed, lock, loaded, upload_failed>>

AggNext ==
    \/ AggStart
    \/ \E results \in ResultLists :
          \E g \in SUBSET (Range(results) \ agg.seen_ids) :
          \E w \in SUBSET (Range(results) \ agg.seen_ids) :
              AggFetchOk(results, [genres |-> g, providers |-> w])
    \/ AggFetchStatus
    \/ AggFetchErr
    \/ \E seed \in Seeds : AggReturn(seed)

AggSpec == Init /\ [][AggNext]_vars

\* generate_user_key alone (line 768): each task computes the key of a preference value
KeyCall(r, p) ==
    /\ req[r].pc = "idle"
    /\ req' = [req EXCEPT ![r] = [IdleReq EXCEPT !.prefs = p,
                                                 !.user_key = generate_user_key(p)]]
    /\ UNCHANGED <<now, cache, blob, upd, calls, served, save_failed, lock, agg, loaded, upload_failed>>

KeyNext == \E r \in Reqs : \E p \in KeyPrefs : KeyCall(r, p)

KeySpec == Init /\ [][KeyNext]_vars

\* save_to_blob's encoding and process_blob_data alone, over the snapshots a
\* cache can hold: catalogs with and without ratings, among them a rating
\* that is not finite (vote_average above the range of f32, line 219)
CodecCatalogs ==
    { <<>>, OtherItems, CatalogB,
      <<Content(301, Some(INFINITY), <<"Action">>), Content(302, Some(MaxFinite), <<"Drama">>)>> }

CodecRotations ==
    { EmptyMap,
      [k \in {generate_user_key(UserPreferences(<<"Drama">>, 0))} |-> {201, 202}],
      [k \in {generate_user_key(p) : p \in ConcPrefs} |-> IF k[2] = 0 THEN {} ELSE {21, 22, 23}] }

Snapshots ==
    {[content |-> c, used_recommendations |-> u, last_updated |-> t] :
        c \in CodecCatalogs, u \in CodecRotations, t \in {0} \cup SeqSteps}

\* lines 699-704 and the upload, for the snapshot d
Save(d) ==
    /\ upd.cache_data = None
    /\ upd' = [upd EXCEPT !.cache_data = Some(d)]
    /\ blob' = Some(compressed(d))
    /\ UNCHANGED <<now, cache, req, calls, served, save_failed, lock, agg, loaded, upload_failed>>

\* the stored bytes are damaged: the stream is no gzip stream, or its text no JSON
Damage(kind) ==
    /\ blob /= None
    /\ loaded = None
    /\ blob[1].gzip /\ blob[1].text.valid
    /\ blob' = IF kind = "gzip" THEN Some([blob[1] EXCEPT !.gzip = FALSE])
               ELSE Some([blob[1] EXCEPT !.text.valid = FALSE])
    /\ UNCHANGED <<now, cache, req, upd, calls, served, save_failed, lock, agg, loaded, upload_failed>>

\* process_blob_data on the downloaded bytes
Load ==
    /\ blob /= None
    /\ loaded = None
    /\ loaded' = Some(process_blob_data(blob[1]))
    /\ UNCHANGED <<now, cache, blob, req, upd, calls, served, save_failed, lock, agg, upload_failed>>

CodecNext ==
    \/ \E d \in Snapshots : Save(d)
    \/ \E kind \in {"gzip", "json"} : Damage(kind)
    \/ Load

CodecSpec == Init /\ [][CodecNext]_vars

-----------------------------------------------------------------------------
(* The lock protocol alone: taking a guard and dropping it are separate
   steps, and a task that calls read() or write() waits until the lock can be
   taken.  What a section does to the cache is left out; where the code
   branches on the cache (hit or miss, fresh or stale, fewer than
   RotationFloor titles or not) both branches are taken.  The exit of the
   process on a failed start is not part of this protocol. *)

LkRest == <<now, cache, blob, served, save_failed, agg, loaded, upload_failed>>

\* the guards task t holds
Holds(t) == lock.writer = Some(t) \/ t \in lock.readers

\* a request reaches the handler (line 881), once the server has started
LkArrive(r) ==
    /\ upd.pc \notin {"boot", "boot_checking"}
    /\ req[r].pc = "idle"
    /\ calls < MaxLockCalls
    /\ calls' = calls + 1
    /\ req' = [req EXCEPT ![r].pc = "arrived"]
    /\ UNCHANGED <<lock, upd>> /\ UNCHANGED LkRest

\* line 772
LkReqRead(r) ==
    /\ req[r].pc = "arrived"
    /\ read_ok(lock)
    /\ lock' = read(lock, r)
    /\ req' = [req EXCEPT ![r].pc = "holds_read"]
    /\ UNCHANGED <<calls, upd>> /\ UNCHANGED LkRest

\* line 778: the guard leaves the block; line 780 branches on the content
LkReqReadDrop(r, hit) ==
    /\ req[r].pc = "holds_read"
    /\ lock' = drop(lock, r)
    /\ req' = [req EXCEPT ![r].pc = IF hit THEN "filter" ELSE "scrape"]
    /\ UNCHANGED <<calls, upd>> /\ UNCHANGED LkRest

\* line 786: scrape_content returns
LkReqScrape(r, ok) ==
    /\ req[r].pc = "scrape"
    /\ req' = [req EXCEPT ![r].pc = IF ok THEN "replace" ELSE "done"]
    /\ UNCHANGED <<lock, calls, upd>> /\ UNCHANGED LkRest

\* line 790
LkReqWrite(r) ==
    /\ req[r].pc = "replace"
    /\ write_ok(lock)
    /\ lock' = write(lock, r)
    /\ req' = [req EXCEPT ![r].pc = "holds_write"]
    /\ UNCHANGED <<calls, upd>> /\ UNCHANGED LkRest

\* line 801: drop(cache)
LkReqWriteDrop(r) ==
    /\ req[r].pc = "holds_write"
    /\ lock' = drop(lock, r)
    /\ req' = [req EXCEPT ![r].pc = "save"]
    /\ UNCHANGED <<calls, upd>> /\ UNCHANGED LkRest

\* line 804: save_to_blob returns, after its last attempt at the latest
LkReqSave(r, ok) ==
    /\ req[r].pc = "save"
    /\ req' = [req EXCEPT ![r].pc = IF ok THEN "filter" ELSE "done"]
    /\ UNCHANGED <<lock, calls, upd>> /\ UNCHANGED LkRest

\* line 829
LkFilterWrite(r) ==
    /\ req[r].pc = "filter"
    /\ write_ok(lock)
    /\ lock' = write(lock, r)
    /\ req' = [req EXCEPT ![r].pc = "excluding"]
    /\ UNCHANGED <<calls, upd>> /\ UNCHANGED LkRest

\* as LkFilterDrop, but on the reset path the write guard lives to the end of
\* the block
LkFilterDrop_guard_kept(r, low) ==
    /\ req[r].pc = "excluding"
    /\ lock' = IF low THEN lock ELSE drop(lock, r)
    /\ req' = [req EXCEPT ![r].pc = IF low THEN "reread" ELSE "mark",
                          ![r].reset = low]
    /\ UNCHANGED <<calls, upd>> /\ UNCHANGED LkRest

\* line 842: drop(cache) on the reset path; line 855 otherwise
LkFilterDrop(r, low) ==
    /\ req[r].pc = "excluding"
    /\ lock' = drop(lock, r)
    /\ req' = [req EXCEPT ![r].pc = IF low THEN "reread" ELSE "mark",
                          ![r].reset = low]
    /\ UNCHANGED <<calls, upd>> /\ UNCHANGED LkRest

\* line 844
LkFilterRead(r) ==
    /\ req[r].pc = "reread"
    /\ read_ok(lock)
    /\ lock' = read(lock, r)
    /\ req' = [req EXCEPT ![r].pc = "holds_reread"]
    /\ UNCHANGED <<calls, upd>> /\ UNCHANGED LkRest

\* line 854: cache_read leaves the block (with it any guard of the block)
LkFilterReadDrop(r) ==
    /\ req[r].pc = "holds_reread"
    /\ lock' = drop(lock, r)
    /\ req' = [req EXCEPT ![r].pc = "mark"]
    /\ UNCHANGED <<calls, upd>> /\ UNCHANGED LkRest

\* line 867
LkMarkWrite(r) ==
    /\ req[r].pc = "mark"
    /\ write_ok(lock)
    /\ lock' = write(lock, r)
    /\ req' = [req EXCEPT ![r].pc = "recording"]
    /\ UNCHANGED <<calls, upd>> /\ UNCHANGED LkRest

\* line 875
LkMarkDrop(r) ==
    /\ req[r].pc = "recording"
    /\ lock' = drop(lock, r)
    /\ req' = [req EXCEPT ![r].pc = "done"]
    /\ UNCHANGED <<calls, upd>> /\ UNCHANGED LkRest

\* the handler answers (lines 888-903)
LkFinish(r) ==
    /\ req[r].pc = "done"
    /\ req' = [req EXCEPT ![r] = IdleReq]
    /\ UNCHANGED <<lock, calls, upd>> /\ UNCHANGED LkRest

\* line 929: the sleep of the periodic task ends
LkTimer ==
    /\ upd.pc = "sleep"
    /\ calls < MaxLockCalls
    /\ calls' = calls + 1
    /\ upd' = [upd EXCEPT !.pc = "due"]
    /\ UNCHANGED <<lock, req>> /\ UNCHANGED LkRest

\* line 668
LkUpdRead ==
    /\ upd.pc \in {"boot", "due"}
    /\ read_ok(lock)
    /\ lock' = read(lock, UpdTask)
    /\ upd' = [upd EXCEPT !.pc = IF upd.pc = "boot" THEN "boot_checking" ELSE "checking"]
    /\ UNCHANGED <<calls, req>> /\ UNCHANGED LkRest

\* lines 669-672: the cache made at line 181 is not stale at the initial call
LkUpdReadDrop(stale) ==
    /\ \/ upd.pc = "checking"
       \/ upd.pc = "boot_checking" /\ ~stale
    /\ lock' = drop(lock, UpdTask)
    /\ upd' = [upd EXCEPT !.pc = IF stale THEN "scrape" ELSE "sleep"]
    /\ UNCHANGED <<calls, req>> /\ UNCHANGED LkRest

\* line 675
LkUpdScrape(ok) ==
    /\ upd.pc = "scrape"
    /\ upd' = [upd EXCEPT !.pc = IF ok THEN "replace" ELSE "sleep"]
    /\ UNCHANGED <<lock, calls, req>> /\ UNCHANGED LkRest

\* line 680
LkUpdWrite ==
    /\ upd.pc = "replace"
    /\ write_ok(lock)
    /\ lock' = write(lock, UpdTask)
    /\ upd' = [upd EXCEPT !.pc = "holds_write"]
    /\ UNCHANGED <<calls, req>> /\ UNCHANGED LkRest

\* line 690
LkUpdWriteDrop ==
    /\ upd.pc = "holds_write"
    /\ lock' = drop(lock, UpdTask)
    /\ upd' = [upd EXCEPT !.pc = "save"]
    /\ UNCHANGED <<calls, req>> /\ UNCHANGED LkRest

\* line 693: save_to_blob returns, after its last attempt at the latest; main
\* goes back to sleep on Ok and on Err (lines 931-933)
LkUpdSave ==
    /\ upd.pc = "save"
    /\ upd' = [upd EXCEPT !.pc = "sleep"]
    /\ UNCHANGED <<lock, calls, req>> /\ UNCHANGED LkRest

\* the steps of a recommend call once it has arrived
LkReqRun(r) ==
    \/ LkReqRead(r)
    \/ \E hit \in BOOLEAN : LkReqReadDrop(r, hit)
    \/ \E ok \in BOOLEAN : LkReqScrape(r, ok)
    \/ LkReqWrite(r)
    \/ LkReqWriteDrop(r)
    \/ \E ok \in BOOLEAN : LkReqSave(r, ok)
    \/ LkFilterWrite(r)
    \/ \E low \in BOOLEAN : LkFilterDrop(r, low)
    \/ LkFilterRead(r)
    \/ LkFilterReadDrop(r)
    \/ LkMarkWrite(r)
    \/ LkMarkDrop(r)
    \/ LkFinish(r)

\* the steps of an update_content call once it has been made
LkUpdRun ==
    \/ LkUpdRead
    \/ \E stale \in BOOLEAN : LkUpdReadDrop(stale)
    \/ \E ok \in BOOLEAN : LkUpdScrape(ok)
    \/ LkUpdWrite
    \/ LkUpdWriteDrop
    \/ LkUpdSave

LockNext ==
    \/ \E r \in Reqs : LkArrive(r)
    \/ \E r \in Reqs : LkReqRun(r)
    \/ LkTimer
    \/ LkUpdRun

\* every task that can take a step is scheduled, the lock is handed to every
\* task that keeps asking for it, and every network call returns; nothing is
\* asked of the arrival of requests
LockSpec ==
    /\ Init
    /\ [][LockNext]_vars
    /\ \A r \in Reqs : SF_vars(LkReqRun(r))
    /\ SF_vars(LkUpdRun)

-----------------------------------------------------------------------------
(* What the claims speak of *)

Returned200(r) ==
    /\ req[r].pc = "done"
    /\ req[r].result[1].status = "Ok"

Body(r) == req[r].result[1].body

Rating(c) == IF c.rating = <<>> THEN 0 ELSE c.rating[1]

Satisfies(c, p) ==
    /\ Rating(c) >= p.minimum_rating
    /\ Range(c.genre) \cap Range(p.favorite_genres) /= {}

\* the items of the cached catalog that satisfy p, in catalog order
RECURSIVE Pool(_, _)
Pool(s, p) ==
    IF s = <<>> THEN <<>>
    ELSE IF Satisfies(Head(s), p) THEN <<Head(s)>> \o Pool(Tail(s), p)
    ELSE Pool(Tail(s), p)

Cached == IF "latest" \in DOMAIN cache.data THEN cache.data["latest"] ELSE <<>>

Used(k) ==
    IF k \in DOMAIN cache.used_recommendations THEN cache.used_recommendations[k] ELSE {}

ServedTo(k) == IF k \in DOMAIN served THEN served[k] ELSE {}

Elapsed == now - cache.last_updated

\* scrape_content failed for the request that has returned
AggregationFailed(r) ==
    /\ req[r].pc = "done"
    /\ req[r].path \in {"stale", "empty"}
    /\ req[r].content = None

-----------------------------------------------------------------------------
(* C1: every item a recommend call returns for non-empty favorite genres has
   a rating (None counted as 0) of at least the minimum rating and a genre
   among the favorite genres, in every interleaving with replaces and other
   requests. *)
C1_ReturnedItemsSatisfyPrefs ==
    \A r \in Reqs :
        (Returned200(r) /\ req[r].prefs.favorite_genres /= <<>>)
            => \A i \in 1..Len(Body(r)) : Satisfies(Body(r)[i], req[r].prefs)

\* a call returned items, one of them without a rating, and the catalog was
\* replaced by another task while the call was in progress
C1_Witness ==
    \E r \in Reqs :
        /\ Returned200(r)
        /\ req[r].prefs.favorite_genres /= <<>>
        /\ \E i \in 1..Len(Body(r)) : Body(r)[i].rating = None
        /\ req[r].content /= Some(Cached)

(* C2: a recommend call with an empty favorite-genres list returns the empty
   list, whatever the catalog, the minimum rating and the rotation state,
   the reset path included. *)
C2_EmptyGenresEmptyResult ==
    \A r \in Reqs :
        (Returned200(r) /\ req[r].prefs.favorite_genres = <<>>) => Body(r) = <<>>

\* such a call returned, through the reset path, over a catalog with items
C2_Witness ==
    \E r \in Reqs :
        /\ Returned200(r)
        /\ req[r].prefs.favorite_genres = <<>>
        /\ req[r].reset
        /\ Len(Cached) > MaxRecommendations

(* C3: with one call at a time, no call returns a title that an earlier call
   returned to the same user key, unless a call in between (or this call)
   found fewer than RotationFloor eligible items and restarted the rotation,
   or the catalog was replaced. *)
C3_NoRepeatBeforeReset ==
    [][\A r \in Reqs :
          (req[r].pc = "mark" /\ req'[r].pc = "done")
              => Titles(req[r].recommendations) \cap ServedTo(req[r].user_key) = {}]_vars

\* over a pool of more than RotationFloor + MaxRecommendations titles, a call
\* that did not reset returned titles and others had been served before it
C3_Witness ==
    \E r \in Reqs :
        /\ Returned200(r)
        /\ ~req[r].reset
        /\ Len(Pool(Cached, req[r].prefs)) > RotationFloor + MaxRecommendations
        /\ Body(r) /= <<>>
        /\ ServedTo(req[r].user_key) \ Titles(Body(r)) /= {}

(* C4: a recommend call that finds the cache stale or empty and whose
   aggregation fails returns success, and the empty list when the cache is
   empty. *)
C4_AggregationFailureIsSuccess ==
    \A r \in Reqs :
        AggregationFailed(r)
            => /\ req[r].result[1].status = "Ok"
               /\ req[r].path = "empty" => Body(r) = <<>>

(* C5: a recommend call that finds the cache stale but populated and whose
   aggregation fails is served from the cached catalog, which stays in
   place. *)
C5_StaleCacheServed ==
    \A r \in Reqs :
        (AggregationFailed(r) /\ req[r].path = "stale")
            => /\ req[r].result[1].status = "Ok"
               /\ Range(Body(r)) \subseteq Range(Pool(Cached, req[r].prefs))
               /\ "latest" \in DOMAIN cache.data

(* C6: a recommend call that aggregated and replaced the cache, and whose
   upload then failed max_retries times, still returns its recommendations
   as a success. *)
C6_StorageFaultIsSuccess ==
    \A r \in Reqs :
        (req[r].pc = "done" /\ req[r].retry_count = max_retries)
            => req[r].result[1].status = "Ok"

(* C7: when the last of the max_retries upload attempts of a save fails, the
   save reports an error and the step leaves content, last_updated and the
   rotation store as the replace installed them; a recommend call that
   arrives after it, no more than StaleHours after last_updated, takes the
   cached content without aggregating, and returns success. *)
C7_FailedSaveKeepsCache ==
    /\ [][(\A r \in Reqs :
              (req[r].pc = "save" /\ req[r].retry_count = max_retries - 1
                    /\ req'[r].pc /= "filter" /\ req'[r] /= req[r])
                  => /\ req'[r].result = Some(Err("upload"))
                     /\ cache' = cache)
          /\ ((upd.pc = "save" /\ upd.retry_count = max_retries - 1
                    /\ upd' /= upd /\ save_failed')
                  => cache' = cache)]_vars
    /\ [][\A r \in Reqs :
              (req[r].pc = "idle" /\ req'[r].pc /= "idle" /\ save_failed
                    /\ Elapsed <= Hours(StaleHours))
                  => /\ req'[r].pc = "filter"
                     /\ req'[r].content = Some(Cached)
                     /\ cache' = cache]_vars
    /\ [](\A r \in Reqs :
              (req[r].pc = "done" /\ req[r].after_failed_save /\ req[r].path = "cached")
                  => req[r].result[1].status = "Ok")

\* after a save that failed, with the replaced catalog still cached, a call
\* was served from the cache and returned items
C7_Witness ==
    \E r \in Reqs :
        /\ Returned200(r)
        /\ req[r].after_failed_save
        /\ save_failed
        /\ req[r].path = "cached"
        /\ req[r].content = Some(Cached)
        /\ Body(r) /= <<>>

(* C8: with one call at a time, a call that finds fewer than RotationFloor
   eligible items after the exclusion clears its user's rotation entry and
   selects from all the cached items that satisfy the preferences: it
   returns min(MaxRecommendations, n) of these n items, all of them when
   n < RotationFloor, and after the call the entry holds exactly the
   returned titles. *)
C8_ResetDrawsFromFullPool ==
    \A r \in Reqs :
        /\ req[r].pc = "reread" => Used(req[r].user_key) = {}
        /\ (Returned200(r) /\ req[r].reset)
              => LET full == Pool(Cached, req[r].prefs)
                 IN  /\ Range(Body(r)) \subseteq Range(full)
                     /\ Len(Body(r)) = Min(MaxRecommendations, Len(full))
                     /\ Len(full) < RotationFloor => Range(Body(r)) = Range(full)
                     /\ Used(req[r].user_key) = Titles(Body(r))

\* a reset call returned a pool of fewer than RotationFloor items whole
C8_Witness ==
    \E r \in Reqs :
        /\ Returned200(r)
        /\ req[r].reset
        /\ req[r].path = "cached"
        /\ Len(Body(r)) = SmallPool + 2
        /\ Len(Pool(Cached, req[r].prefs)) = SmallPool + 2

(* C9: a recommend call returns exactly min(MaxRecommendations, n) items,
   n the size of the eligible set after filtering, exclusion and reset, and
   every returned item is in the eligible set. *)
C9_ResultSize ==
    \A r \in Reqs :
        Returned200(r)
            => /\ Len(Body(r)) = Min(MaxRecommendations, Len(req[r].available))
               /\ Len(Body(r)) <= MaxRecommendations
               /\ Range(Body(r)) \subseteq Range(req[r].available)

\* a call with more than MaxRecommendations eligible items returned
C9_Witness ==
    \E r \in Reqs :
        /\ Returned200(r)
        /\ Len(req[r].available) > MaxRecommendations
        /\ Len(Body(r)) = MaxRecommendations

(* C10: two preference values with the same minimum rating whose genre lists
   denote the same set of genres have the same user key. *)
C10_SameGenreSetSameKey ==
    \A r, q \in Reqs :
        (/\ req[r].prefs.minimum_rating = req[q].prefs.minimum_rating
         /\ Range(req[r].prefs.favorite_genres) = Range(req[q].prefs.favorite_genres))
            => req[r].user_key = req[q].user_key

(* C11: decoding with process_blob_data the bytes that save_to_blob makes of
   a snapshot yields a snapshot with the same catalog content and the same
   rotation map. *)
C11_RoundTrip ==
    (/\ loaded /= None
     /\ upd.cache_data /= None
     /\ blob = Some(compressed(upd.cache_data[1])))
        => /\ loaded[1].status = "Ok"
           /\ loaded[1].body.content = upd.cache_data[1].content
           /\ loaded[1].body.used_recommendations = upd.cache_data[1].used_recommendations

\* beside C11: the round trip gives back every snapshot none of whose ratings
\* is a value that is not finite, last_updated included
RoundTripFiniteRatings ==
    (/\ loaded /= None
     /\ upd.cache_data /= None
     /\ blob = Some(compressed(upd.cache_data[1]))
     /\ \A i \in 1..Len(upd.cache_data[1].content) :
            is_finite(unwrap_or(upd.cache_data[1].content[i].rating, 0)))
        => loaded[1] = Ok(upd.cache_data[1])

(* C13: save_to_blob makes at most max_retries upload attempts: every attempt
   is made with fewer than max_retries failures behind it; an attempt that
   succeeds ends the save with success at once; a failed attempt is followed
   by another only while fewer than max_retries have failed, and the failure
   of attempt max_retries ends the save with an error. *)
C13_SaveAtMostThreeAttempts ==
    /\ [](\A r \in Reqs : req[r].pc = "save" => req[r].retry_count < max_retries)
    /\ [](upd.pc = "save" => upd.retry_count < max_retries)
    /\ [][\A r \in Reqs :
              (req[r].pc = "save" /\ req'[r] /= req[r])
                  => \/ /\ req'[r].pc = "filter"
                        /\ req'[r].retry_count = req[r].retry_count
                        /\ blob' = Some(compressed(req[r].cache_data[1]))
                     \/ /\ req'[r].pc = "save"
                        /\ req'[r].retry_count = req[r].retry_count + 1
                        /\ req'[r].retry_count < max_retries
                        /\ blob' = blob
                     \/ /\ req'[r].pc = "done"
                        /\ req'[r].retry_count = max_retries
                        /\ req'[r].result = Some(Err("upload"))
                        /\ blob' = blob]_vars
    /\ [][(upd.pc = "save" /\ upd' /= upd)
              => \/ /\ upd'.pc = "sleep"
                    /\ ~save_failed'
                    /\ blob' = Some(compressed(upd.cache_data[1]))
                 \/ /\ upd'.pc = "save"
                    /\ upd'.retry_count = upd.retry_count + 1
                    /\ upd'.retry_count < max_retries
                    /\ blob' = blob
                 \/ /\ upd'.pc = "sleep"
                    /\ upd.retry_count = max_retries - 1
                    /\ save_failed'
                    /\ blob' = blob]_vars

\* a save has succeeded at attempt max_retries, after the failure of the others
C13_Witness ==
    \E r \in Reqs :
        /\ req[r].pc = "filter"
        /\ req[r].retry_count = max_retries - 1
        /\ upload_failed
        /\ blob = Some(compressed(req[r].cache_data[1]))

(* C14: whenever no save is in progress and no upload attempt has failed, the
   snapshot held by the durable store has the catalog content held in
   memory. *)
C14_StoreMatchesMemory ==
    (/\ \A r \in Reqs : req[r].pc /= "save"
     /\ upd.pc /= "save"
     /\ ~upload_failed)
        => IF blob = None THEN "latest" \notin DOMAIN cache.data
           ELSE /\ "latest" \in DOMAIN cache.data
                /\ process_blob_data(blob[1]).status = "Ok"
                /\ process_blob_data(blob[1]).body.content = cache.data["latest"]

(* C15: a call that finds no catalog in memory starts an aggregation only
   when the durable store holds no snapshot that process_blob_data accepts;
   when it holds one, the cache is restored from it. *)
C15_RestoredFromSnapshot ==
    \A r \in Reqs :
        (req[r].pc = "scrape" /\ req[r].path = "empty")
            => \/ blob = None
               \/ process_blob_data(blob[1]).status = "Err"

(* C16: with no request received, every firing of the timer of the background
   task makes update_content aggregate anew. *)
C16_TimerFiringRefreshes ==
    [][(upd.pc = "sleep" /\ upd' /= upd /\ calls = 0) => upd'.pc = "scrape"]_vars

(* C19: the catalog counts as stale exactly when more than StaleHours hours
   have elapsed since last_updated. *)
C19_StaleIffOverTwelveHours ==
    needs_update(cache) <=> (Elapsed > Hours(StaleHours))

\* the task t leaves its aggregation and enters its save in this step: it replaces
Replaces(t) ==
    IF t = UpdTask THEN upd.pc = "scrape" /\ upd'.pc = "save"
    ELSE req[t].pc = "scrape" /\ req'[t].pc = "save"

\* the content the task t holds to install
Installed(t) == IF t = UpdTask THEN upd'.cache_data[1].content ELSE req'[t].content[1]

(* C17: a replace is one step: the step in which a task replaces installs its
   content, sets last_updated to the present and leaves the rotation store
   empty for all users; content and last_updated change in no other step;
   and a call that starts while the cache is not stale takes the content
   installed by the latest replace. *)
C17_ReplaceIsAtomic ==
    /\ [][\A t \in Reqs \cup {UpdTask} :
              Replaces(t)
                  => /\ cache'.data = [k \in {"latest"} |-> Installed(t)]
                     /\ cache'.last_updated = now
                     /\ cache'.used_recommendations = EmptyMap]_vars
    /\ [][(cache'.data /= cache.data \/ cache'.last_updated /= cache.last_updated)
              => \E t \in Reqs \cup {UpdTask} : Replaces(t)]_vars
    /\ [][\A r \in Reqs :
              (req[r].pc = "idle" /\ req'[r].pc /= "idle"
                    /\ "latest" \in DOMAIN cache.data /\ ~needs_update(cache))
                  => /\ req'[r].content = Some(cache.data["latest"])
                     /\ req'[r].pc = "filter"]_vars

\* a replace has emptied a rotation store that held the titles of a call that
\* has returned, while the replacing task is still at its save
C17_Witness ==
    /\ \E q \in Reqs : Returned200(q) /\ Body(q) /= <<>>
    /\ cache.used_recommendations = EmptyMap
    /\ cache.last_updated > 0
    /\ upd.pc = "save" \/ \E r \in Reqs : req[r].pc = "save"

\* the task t is at an aggregation or at an upload of save_to_blob, the waits
\* between the attempts included
AtIO(t) ==
    IF t = UpdTask THEN upd.pc \in {"scrape", "save"}
    ELSE req[t].pc \in {"scrape", "save"}

(* C20: no task holds the cache lock, for reading or for writing, while its
   aggregation or its upload is in progress. *)
C20_NoLockAcrossIO ==
    \A t \in Reqs \cup {UpdTask} :
        AtIO(t) => (lock.writer /= Some(t) /\ t \notin lock.readers)

\* while a task waits between two upload attempts, a call has read the
\* content that task installed, has gone through the rotation and returned
C20_Witness ==
    \E t \in Reqs \cup {UpdTask} :
        /\ AtIO(t)
        /\ IF t = UpdTask THEN upd.pc = "save" /\ upd.retry_count > 0
           ELSE req[t].pc = "save" /\ req[t].retry_count > 0
        /\ \E q \in Reqs \ {t} :
               /\ Returned200(q)
               /\ req[q].path = "cached"
               /\ req[q].content = Some(Cached)
               /\ Body(q) /= <<>>

(* C18: an aggregation run in which listing calls fail returns success with
   the items of the calls that did not fail, the empty list when all of
   them failed. *)
C18_ListingFailureSkipped ==
    agg.pc = "done"
        => /\ agg.result[1].status = "Ok"
           /\ Range(agg.result[1].body) = Range(agg.all_content)
           /\ ~agg.answered => agg.result[1].body = <<>>

\* beside C18: a run in which no listing call failed in send() or in the
\* decoding of its body returns the items of the calls answered with a
\* success status, whatever number of calls was answered with an error status
StatusFailureSkipped ==
    (agg.pc = "run" /\ agg.call > NumListings)
        => /\ Len(agg.all_content) = Cardinality(agg.seen_ids)
           /\ ~agg.answered => agg.all_content = <<>>

(* C12: within one aggregation run every id that occurred in the listing
   pages has exactly one entry in the aggregated list, and detail calls were
   issued for it exactly once: a repeated id is skipped before its detail
   calls. *)
C12_AggregationDeduplicates ==
    /\ Len(agg.all_content) = Len(agg.detail_calls)
    /\ Range(agg.detail_calls) = agg.seen_ids
    /\ \A i, j \in 1..Len(agg.detail_calls) :
            agg.detail_calls[i] = agg.detail_calls[j] => i = j
    /\ (agg.pc = "done" /\ agg.result[1].status = "Ok")
            => Len(agg.result[1].body) = Cardinality(agg.seen_ids)

\* a run returned a list with an entry for each id, and an id had come again
C12_Witness ==
    /\ agg.pc = "done"
    /\ agg.result[1].status = "Ok"
    /\ agg.repeated
    /\ Len(agg.result[1].body) = MaxId

\* number of places of s that hold x
Count(s, x) == Cardinality({i \in 1..Len(s) : s[i] = x})

\* beside C10: the key does not depend on the order of the list, that is, two
\* lists holding the same genres the same number of times have the same key
PermutedGenresSameKey ==
    \A r, q \in Reqs :
        (/\ req[r].prefs.minimum_rating = req[q].prefs.minimum_rating
         /\ \A g \in Range(req[r].prefs.favorite_genres)
                    \cup Range(req[q].prefs.favorite_genres) :
                Count(req[r].prefs.favorite_genres, g) = Count(req[q].prefs.favorite_genres, g))
            => req[r].user_key = req[q].user_key

\* the rotation entry of the key k after the step
UsedNext(k) ==
    IF k \in DOMAIN cache'.used_recommendations THEN cache'.used_recommendations[k] ELSE {}

(* C21: on the path without reset the exclusion step leaves the rotation
   entry of the call's key as it was, and the recording step makes it the
   union of what it was and the returned titles: no recorded title is
   removed. *)
C21_RotationEntryUnion ==
    [][\A r \in Reqs :
          /\ (req[r].pc = "filter" /\ req'[r].pc = "mark")
                => UsedNext(req[r].user_key) = Used(req[r].user_key)
          /\ (req[r].pc = "mark" /\ req'[r].pc = "done" /\ ~req[r].reset)
                => /\ req'[r].result[1].status = "Ok"
                   /\ UsedNext(req[r].user_key)
                        = Used(req[r].user_key) \cup Titles(req'[r].result[1].body)]_vars

\* a call without reset returned titles, and its key's entry holds them and
\* titles recorded before
C21_Witness ==
    \E r \in Reqs :
        /\ Returned200(r)
        /\ ~req[r].reset
        /\ Body(r) /= <<>>
        /\ Titles(Body(r)) \subseteq Used(req[r].user_key)
        /\ Used(req[r].user_key) \ Titles(Body(r)) /= {}

(* C22: after the failure of attempt k, k below max_retries, a save sleeps
   2^k seconds before the next attempt; it does not sleep after the failure
   of attempt max_retries; and the seconds slept by one save never exceed
   14. *)
C22_BackoffDelays ==
    /\ [](\A r \in Reqs : req[r].backoff <= 14)
    /\ [](upd.backoff <= 14)
    /\ [][\A r \in Reqs :
              (req[r].pc = "save" /\ req'[r].retry_count = req[r].retry_count + 1)
                  => req'[r].backoff - req[r].backoff
                        = (IF req'[r].retry_count < max_retries
                           THEN 2 ^ req'[r].retry_count ELSE 0)]_vars
    /\ [][(upd.pc = "save" /\ upd'.pc = "save" /\ upd' /= upd)
              => upd'.backoff - upd.backoff = 2 ^ upd'.retry_count]_vars

\* a save has failed max_retries times and has slept 2 + 4 seconds
C22_Witness ==
    \E r \in Reqs :
        /\ req[r].pc = "done"
        /\ req[r].retry_count = max_retries
        /\ req[r].backoff = 2 + 4

(* C23: an item whose genre call or provider call fails is still added to the
   aggregated list, with the empty list in the place of what the failed
   call would have given, and the run goes on. *)
C23_DetailFailureDegrades ==
    /\ Len(agg.all_content) = Len(agg.detail_calls)
    /\ \A i \in 1..Len(agg.all_content) :
          /\ (agg.detail_calls[i] \in agg.genres_failed)
                <=> agg.all_content[i].genre = <<>>
          /\ (agg.detail_calls[i] \in agg.providers_failed)
                <=> agg.all_content[i].where_to_watch = <<>>
    /\ (agg.pc = "done" /\ agg.result[1].status = "Err")
          => agg.result[1].error = "listing"

\* a run has returned a list with an item without genres, an item without
\* providers, and as many items as ids
C23_Witness ==
    /\ agg.pc = "done"
    /\ agg.result[1].status = "Ok"
    /\ agg.genres_failed /= {}
    /\ agg.providers_failed /= {}
    /\ agg.providers_failed /= agg.genres_failed
    /\ Len(agg.result[1].body) = MaxId

(* C24: two calls with the same user key, both served from the same fresh
   catalog with more than RotationFloor + MaxRecommendations eligible
   titles, neither of them through a reset, have no returned title in
   common. *)
C24_ConcurrentCallsDisjoint ==
    \A r, q \in Reqs :
        (/\ r /= q
         /\ Returned200(r) /\ Returned200(q)
         /\ req[r].user_key = req[q].user_key
         /\ req[r].path = "cached" /\ req[q].path = "cached"
         /\ req[r].content = Some(Cached) /\ req[q].content = Some(Cached)
         /\ ~req[r].reset /\ ~req[q].reset
         /\ Len(Pool(Cached, req[r].prefs)) > RotationFloor + MaxRecommendations)
            => Titles(Body(r)) \cap Titles(Body(q)) = {}

(* C25: in every reachable state, every title in any rotation entry is a
   title of the currently cached catalog. *)
C25_RotationWithinCatalog ==
    \A k \in DOMAIN cache.used_recommendations :
        cache.used_recommendations[k] \subseteq Titles(Cached)

(* C26: an update_content call that finds the cache not stale returns
   success without aggregating and leaves the content, the rotation store,
   last_updated and the durable store as they were; this is the case of the
   initial call, so the catalog is still empty after it and a first
   recommend call made before the cache has become stale aggregates. *)
C26_FreshUpdateIsNoOp ==
    /\ [](upd.pc = "boot" => ~needs_update(cache) /\ get_latest(cache) = None)
    /\ [][(upd.pc \in {"boot", "sleep"} /\ upd' /= upd /\ ~needs_update(cache))
            => /\ upd'.pc = "sleep"
               /\ cache' = cache
               /\ blob' = blob]_vars
    /\ [](\A r \in Reqs :
            (calls = 1 /\ req[r].pc /= "idle" /\ num_hours(now) <= StaleHours)
                => req[r].path = "empty")

\* the timer has fired on a populated cache that was not stale, and the call
\* has returned leaving the catalog installed earlier in place
C26_Witness ==
    /\ upd.pc = "sleep"
    /\ upd.wake = now + Hours(TimerHours)
    /\ now > 0
    /\ cache.last_updated < now
    /\ ~needs_update(cache)
    /\ Cached /= <<>>

(* C27: every step of a recommend call that is served from the fresh
   populated cache leaves the cached content, last_updated, the rotation
   entries of every other key and the durable store as they were. *)
C27_CachedCallTouchesOwnEntryOnly ==
    [][\A r \in Reqs :
          (req'[r] /= req[r] /\ (req[r].path = "cached" \/ req'[r].path = "cached"))
            => LET k == IF req[r].path = "cached" THEN req[r].user_key
                        ELSE req'[r].user_key
               IN  /\ cache'.data = cache.data
                   /\ cache'.last_updated = cache.last_updated
                   /\ DOMAIN cache'.used_recommendations \ {k}
                        = DOMAIN cache.used_recommendations \ {k}
                   /\ \A x \in DOMAIN cache.used_recommendations \ {k} :
                        cache'.used_recommendations[x] = cache.used_recommendations[x]
                   /\ blob' = blob]_vars

\* a call served from the cache has gone through a reset and recorded its
\* titles while another key has titles recorded and a snapshot is stored
C27_Witness ==
    \E r \in Reqs :
        /\ Returned200(r)
        /\ req[r].path = "cached"
        /\ req[r].reset
        /\ Used(req[r].user_key) /= {}
        /\ \E x \in DOMAIN cache.used_recommendations :
              x /= req[r].user_key /\ cache.used_recommendations[x] /= {}
        /\ blob /= None

\* the positions at which a task calls read() or write()
AtAcquire(t) ==
    IF t = UpdTask THEN upd.pc \in {"boot", "due", "replace"}
    ELSE req[t].pc \in {"arrived", "replace", "filter", "reread", "mark"}

\* a call is in progress and no task in a call can take a step
Stuck ==
    /\ \/ \E r \in Reqs : req[r].pc /= "idle"
       \/ upd.pc /= "sleep"
    /\ ~ENABLED ((\E r \in Reqs : LkReqRun(r)) \/ LkUpdRun)

(* C28: no task calls read() or write() on the lock while it holds a guard
   of it, no state is reached in which calls are in progress and none can
   step, and every recommend call and every update_content call
   completes. *)
C28_CallsComplete ==
    /\ [](\A t \in Reqs \cup {UpdTask} : AtAcquire(t) => ~Holds(t))
    /\ [](~Stuck)
    /\ \A r \in Reqs : (req[r].pc = "arrived") ~> (req[r].pc = "done")
    /\ (upd.pc \in {"boot", "due"}) ~> (upd.pc = "sleep")

\* a call on the reset path holds the read guard it took after dropping its
\* write guard, while the update and the other call wait for the lock
C28_Witness ==
    \E r, q \in Reqs :
        /\ req[r].pc = "holds_reread"
        /\ req[r].reset
        /\ Holds(r)
        /\ req[q].pc = "mark"
        /\ upd.pc = "replace"

\* the snapshot task t has built, and whether t is at its save
SnapshotOf(t) == IF t = UpdTask THEN upd.cache_data ELSE req[t].cache_data
Saving(t) == IF t = UpdTask THEN upd.pc = "save" ELSE req[t].pc = "save"

(* C29: every snapshot handed to the durable store has an empty rotation
   map: a task comes to its save only in a step in which it replaces, with a
   snapshot that is the copy of the cache as that step leaves it; the store
   changes only by the upload of such a snapshot; and the step in which a
   recommend call records its titles ends the call without a save. *)
C29_SnapshotsCarryNoRotation ==
    /\ [](\A t \in Reqs \cup {UpdTask} :
            Saving(t) => SnapshotOf(t)[1].used_recommendations = EmptyMap)
    /\ [](blob /= None =>
            /\ process_blob_data(blob[1]).status = "Ok"
            /\ process_blob_data(blob[1]).body.used_recommendations = EmptyMap)
    /\ [][\A t \in Reqs \cup {UpdTask} :
            (~Saving(t) /\ Saving(t)')
                => /\ Replaces(t)
                   /\ SnapshotOf(t)' = Some(CacheData(cache'))
                   /\ cache'.used_recommendations = EmptyMap]_vars
    /\ [][blob' /= blob
            => \E t \in Reqs \cup {UpdTask} :
                  Saving(t) /\ blob' = Some(compressed(SnapshotOf(t)[1]))]_vars
    /\ [][\A r \in Reqs :
            (req[r].pc = "mark" /\ req'[r] /= req[r])
                => req'[r].pc = "done" /\ blob' = blob]_vars

\* a call that has replaced and saved has then recorded its titles: the cache
\* holds served titles, the stored snapshot of the same catalog holds none
C29_Witness ==
    /\ blob /= None
    /\ process_blob_data(blob[1]).status = "Ok"
    /\ process_blob_data(blob[1]).body.content = Cached
    /\ \E r \in Reqs :
          /\ Returned200(r)
          /\ req[r].path /= "cached"
          /\ Used(req[r].user_key) /= {}

=============================================================================
